---- MODULE Spec2Model ----
(***************************************************************************)
(* A model of the perfaware 8086 MOV disassembler.                         *)
(*                                                                         *)
(*   src/src/main.rs : the binary's stream driver (disassemble), its       *)
(*                     opcode dispatcher (decode_operation) and its own    *)
(*                     two-byte MOV decoder (decode_mov, MovOperation).    *)
(*   src/src/mov.rs  : the variant decoders and the effective-address      *)
(*                     resolver (register_or_memory, r_m_format_...).      *)
(*                                                                         *)
(* A byte iterator is a pair (machine_code, cursor): cursor counts the     *)
(* calls of next() that returned a byte.  Text is modelled by TLA+         *)
(* strings, built by concatenation as format! builds it.                   *)
(***************************************************************************)
EXTENDS Integers, Sequences, FiniteSets, TLC

VARIABLES
    machine_code,     \* the bytes handed to the program (file content / test array)
    cursor,           \* bytes consumed so far from the iterator over machine_code
    dissassembly,     \* the String accumulated by disassemble (main.rs:14)
    status,           \* "running" | "returned" | "printed" | "panicked"
    stdout,           \* what main has printed
    call,             \* the last decoder call: which function, where it started, its outcome
    overflow_checks   \* the build profile: TRUE (debug) panics on integer overflow, FALSE (release) wraps

vars == <<machine_code, cursor, dissassembly, status, stdout, call, overflow_checks>>

---------------------------------------------------------------------------
(* Bounds of the model *)

\* the longest tail of bytes after the first two bytes of a decoder input
MaxTail == 4

\* the longest input given to the stream driver
MaxCode == 4

---------------------------------------------------------------------------
(* Option<String> and a panic outcome *)

None == [tag |-> "None", val |-> ""]

Some(s) == [tag |-> "Some", val |-> s]

Panic(msg) == [tag |-> "Panic", val |-> msg]

---------------------------------------------------------------------------
(* Bytes, masks and integer conversions *)

RECURSIVE BitAnd(_, _)
BitAnd(a, b) ==
    IF a = 0 \/ b = 0 THEN 0
    ELSE (a % 2) * (b % 2) + 2 * BitAnd(a \div 2, b \div 2)

Shr(a, n) == a \div (2 ^ n)

\* table[((byte & mask) >> shift) as usize], tables being 1-indexed here
lookup_masked(table, byte, mask, shift) == table[Shr(BitAnd(byte, mask), shift) + 1]

u16_from_le_bytes(lo, hi) == lo + 256 * hi

i16_from_le_bytes(lo, hi) ==
    LET u == lo + 256 * hi IN IF u >= 32768 THEN u - 65536 ELSE u

\* third_byte as i8 as i16: sign extension of one byte
u8_as_i8_as_i16(b) == IF b >= 128 THEN b - 256 ELSE b

DIGITS == <<"0", "1", "2", "3", "4", "5", "6", "7", "8", "9">>

\* Display of an unsigned integer: its decimal digits
RECURSIVE fmt_unsigned(_)
fmt_unsigned(n) ==
    IF n < 10 THEN DIGITS[n + 1]
    ELSE fmt_unsigned(n \div 10) \o DIGITS[(n % 10) + 1]

\* Display of an i16: a minus sign and the magnitude when negative
fmt_i16(n) == IF n < 0 THEN "-" \o fmt_unsigned(0 - n) ELSE fmt_unsigned(n)

\* Iterator::next on (s, p)
iter_next(s, p) ==
    IF p < Len(s) THEN [some |-> TRUE, item |-> s[p + 1], pos |-> p + 1]
    ELSE [some |-> FALSE, item |-> 0, pos |-> p]

---------------------------------------------------------------------------
(* src/src/mov.rs: tables *)

\* DIRECTIONS with its two entries exchanged
DIRECTIONS_exchanged == <<"ToRegister", "FromRegister">>

DIRECTIONS == <<"FromRegister", "ToRegister">>

SIZES == <<"Byte", "Word">>

MODES == <<"MemoryNoDisplacement", "Memory8Bit", "Memory16Bit", "Register">>

BYTE_REGISTERS == <<"al", "cl", "dl", "bl", "ah", "ch", "dh", "bh">>

WORD_REGISTERS == <<"ax", "cx", "dx", "bx", "sp", "bp", "si", "di">>

MEMORY_STRINGS ==
    <<"[bx + si]", "[bx + di]", "[bp + si]", "[bp + di]", "[si]", "[di]", "[bp]", "[bx]">>

\* the same eight base expressions without the closing bracket, as the
\* format strings of r_m_format_displacement_inner spell them
MEMORY_PREFIXES ==
    <<"[bx + si", "[bx + di", "[bp + si", "[bp + di", "[si", "[di", "[bp", "[bx">>

register_table(operation_size) ==
    IF operation_size = "Byte" THEN BYTE_REGISTERS ELSE WORD_REGISTERS

as_immediate_str(size) == IF size = "Byte" THEN "byte" ELSE "word"

---------------------------------------------------------------------------
(* src/src/mov.rs: the effective-address resolver *)

\* direct_address printing its value as a signed 16-bit number
direct_address_signed(s, p) ==
    LET lo == iter_next(s, p) IN
    IF ~lo.some THEN [pos |-> lo.pos, out |-> None]
    ELSE
    LET hi == iter_next(s, lo.pos) IN
    IF ~hi.some THEN [pos |-> hi.pos, out |-> None]
    ELSE [pos |-> hi.pos,
          out |-> Some("[" \o fmt_i16(i16_from_le_bytes(lo.item, hi.item)) \o "]")]

\* direct_address reading its two bytes high byte first
direct_address_big_endian(s, p) ==
    LET lo == iter_next(s, p) IN
    IF ~lo.some THEN [pos |-> lo.pos, out |-> None]
    ELSE
    LET hi == iter_next(s, lo.pos) IN
    IF ~hi.some THEN [pos |-> hi.pos, out |-> None]
    ELSE [pos |-> hi.pos,
          out |-> Some("[" \o fmt_unsigned(u16_from_le_bytes(hi.item, lo.item)) \o "]")]

\* direct_address: two bytes, little-endian, unsigned, in brackets
direct_address(s, p) ==
    LET lo == iter_next(s, p) IN
    IF ~lo.some THEN [pos |-> lo.pos, out |-> None]
    ELSE
    LET hi == iter_next(s, lo.pos) IN
    IF ~hi.some THEN [pos |-> hi.pos, out |-> None]
    ELSE [pos |-> hi.pos,
          out |-> Some("[" \o fmt_unsigned(u16_from_le_bytes(lo.item, hi.item)) \o "]")]

\* r_m_format_no_displacement without the direct-address case
r_m_format_no_displacement_no_direct(second_byte, s, p) ==
    [pos |-> p, out |-> Some(MEMORY_STRINGS[BitAnd(second_byte, 7) + 1])]

r_m_format_no_displacement(second_byte, s, p) ==
    LET r_m == BitAnd(second_byte, 7) IN
    IF r_m = 6 THEN direct_address(s, p)
    ELSE [pos |-> p, out |-> Some(MEMORY_STRINGS[r_m + 1])]

\* -displacement on an i16: the one value without a positive counterpart
\* overflows, which panics in a build with overflow checks and wraps otherwise
neg_i16(displacement) ==
    IF displacement = -32768
    THEN (IF overflow_checks THEN Panic("attempt to negate with overflow")
          ELSE Some(-32768))
    ELSE Some(0 - displacement)

r_m_format_displacement_inner(second_byte, displacement) ==
    LET r_m == BitAnd(second_byte, 7) IN
    IF displacement > 0
    THEN Some(MEMORY_PREFIXES[r_m + 1] \o " + " \o fmt_i16(displacement) \o "]")
    ELSE
    LET negated == neg_i16(displacement) IN
    IF negated.tag = "Panic" THEN negated
    ELSE Some(MEMORY_PREFIXES[r_m + 1] \o " - " \o fmt_i16(negated.val) \o "]")

r_m_format_8_bit_displacement(second_byte, third_byte) ==
    LET r_m == BitAnd(second_byte, 7) IN
    IF third_byte = 0 THEN Some(MEMORY_STRINGS[r_m + 1])
    ELSE r_m_format_displacement_inner(r_m, u8_as_i8_as_i16(third_byte))

\* r_m_format_16_bit_displacement without the test for a zero displacement
r_m_format_16_bit_displacement_no_zero_test(second_byte, third_byte, fourth_byte) ==
    r_m_format_displacement_inner(BitAnd(second_byte, 7),
                                  i16_from_le_bytes(third_byte, fourth_byte))

r_m_format_16_bit_displacement(second_byte, third_byte, fourth_byte) ==
    LET r_m == BitAnd(second_byte, 7)
        displacement == i16_from_le_bytes(third_byte, fourth_byte)
    IN
    IF displacement = 0 THEN Some(MEMORY_STRINGS[r_m + 1])
    ELSE r_m_format_displacement_inner(r_m, displacement)

\* register_or_memory: the operand named by the mode and r/m fields of the
\* second byte, reading the displacement bytes the mode asks for
register_or_memory(size, second_byte, s, p) ==
    LET mode == lookup_masked(MODES, second_byte, 192, 6) IN
    CASE mode = "MemoryNoDisplacement" ->
           r_m_format_no_displacement(second_byte, s, p)
      [] mode = "Memory8Bit" ->
           LET third == iter_next(s, p) IN
           IF ~third.some THEN [pos |-> third.pos, out |-> None]
           ELSE [pos |-> third.pos,
                 out |-> r_m_format_8_bit_displacement(second_byte, third.item)]
      [] mode = "Memory16Bit" ->
           LET third == iter_next(s, p) IN
           IF ~third.some THEN [pos |-> third.pos, out |-> None]
           ELSE
           LET fourth == iter_next(s, third.pos) IN
           IF ~fourth.some THEN [pos |-> fourth.pos, out |-> None]
           ELSE [pos |-> fourth.pos,
                 out |-> r_m_format_16_bit_displacement(second_byte, third.item, fourth.item)]
      [] mode = "Register" ->
           [pos |-> p,
            out |-> Some(lookup_masked(register_table(size), second_byte, 7, 0))]

---------------------------------------------------------------------------
(* src/src/mov.rs: the variant decoders, as functions of the iterator *)

\* "mov {first}, {second}"
FormatMov(first, second) == "mov " \o first \o ", " \o second

disassemble_register_to_from_register(s, p) ==
    LET first == iter_next(s, p) IN
    IF ~first.some THEN [pos |-> first.pos, out |-> None]
    ELSE
    LET direction == lookup_masked(DIRECTIONS, first.item, 2, 1)
        operation_size == lookup_masked(SIZES, first.item, 1, 0)
        second == iter_next(s, first.pos)
    IN
    IF ~second.some THEN [pos |-> second.pos, out |-> None]
    ELSE
    LET register == lookup_masked(register_table(operation_size), second.item, 56, 3)
        r_m == register_or_memory(operation_size, second.item, s, second.pos)
    IN
    IF r_m.out.tag # "Some" THEN r_m
    ELSE [pos |-> r_m.pos,
          out |-> Some(IF direction = "FromRegister"
                       THEN FormatMov(r_m.out.val, register)
                       ELSE FormatMov(register, r_m.out.val))]

disassemble_immediate_to_register_memory(s, p) ==
    LET first == iter_next(s, p) IN
    IF ~first.some THEN [pos |-> first.pos, out |-> None]
    ELSE
    LET operation_size == lookup_masked(SIZES, first.item, 1, 0)
        second == iter_next(s, first.pos)
    IN
    IF ~second.some THEN [pos |-> second.pos, out |-> None]
    ELSE
    LET r_m == register_or_memory(operation_size, second.item, s, second.pos) IN
    IF r_m.out.tag # "Some" THEN r_m
    ELSE
    LET data0 == iter_next(s, r_m.pos) IN
    IF ~data0.some THEN [pos |-> data0.pos, out |-> None]
    ELSE
    LET data1 == IF operation_size = "Word" THEN iter_next(s, data0.pos)
                 ELSE [some |-> TRUE, item |-> 0, pos |-> data0.pos]
    IN
    IF ~data1.some THEN [pos |-> data1.pos, out |-> None]
    ELSE [pos |-> data1.pos,
          out |-> Some("mov " \o r_m.out.val \o ", " \o as_immediate_str(operation_size)
                       \o " " \o fmt_unsigned(u16_from_le_bytes(data0.item, data1.item)))]

\* disassemble_immediate_to_register rendering the data as a signed i16
disassemble_immediate_to_register_signed(s, p) ==
    LET first == iter_next(s, p) IN
    IF ~first.some THEN [pos |-> first.pos, out |-> None]
    ELSE
    LET data0 == iter_next(s, first.pos) IN
    IF ~data0.some THEN [pos |-> data0.pos, out |-> None]
    ELSE
    LET size == lookup_masked(SIZES, first.item, 8, 3)
        data1 == IF size = "Word" THEN iter_next(s, data0.pos)
                 ELSE [some |-> TRUE, item |-> 0, pos |-> data0.pos]
        registers == IF size = "Word" THEN WORD_REGISTERS ELSE BYTE_REGISTERS
    IN
    IF ~data1.some THEN [pos |-> data1.pos, out |-> None]
    ELSE [pos |-> data1.pos,
          out |-> Some(FormatMov(lookup_masked(registers, first.item, 7, 0),
                                 fmt_i16(i16_from_le_bytes(data0.item, data1.item))))]

disassemble_immediate_to_register(s, p) ==
    LET first == iter_next(s, p) IN
    IF ~first.some THEN [pos |-> first.pos, out |-> None]
    ELSE
    LET data0 == iter_next(s, first.pos) IN
    IF ~data0.some THEN [pos |-> data0.pos, out |-> None]
    ELSE
    LET size == lookup_masked(SIZES, first.item, 8, 3)
        data1 == IF size = "Word" THEN iter_next(s, data0.pos)
                 ELSE [some |-> TRUE, item |-> 0, pos |-> data0.pos]
        registers == IF size = "Word" THEN WORD_REGISTERS ELSE BYTE_REGISTERS
    IN
    IF ~data1.some THEN [pos |-> data1.pos, out |-> None]
    ELSE [pos |-> data1.pos,
          out |-> Some(FormatMov(lookup_masked(registers, first.item, 7, 0),
                                 fmt_unsigned(u16_from_le_bytes(data0.item, data1.item))))]

\* The memory-to/from-accumulator decoder: one opcode byte whose bit 1 is the
\* direction, then a two-byte little-endian direct address; the other operand
\* is the word accumulator.
disassemble_memory_to_from_accumulator(s, p) ==
    LET first == iter_next(s, p) IN
    IF ~first.some THEN [pos |-> first.pos, out |-> None]
    ELSE
    LET address == direct_address(s, first.pos) IN
    IF address.out.tag # "Some" THEN address
    ELSE [pos |-> address.pos,
          out |-> Some(IF BitAnd(first.item, 2) = 0
                       THEN FormatMov("ax", address.out.val)
                       ELSE FormatMov(address.out.val, "ax"))]

---------------------------------------------------------------------------
(* src/src/main.rs: the dispatcher and the two-byte MOV decoder *)

HEADER == "bits 16"

OPCODE_MASK == 252

\* decode_operation: the first byte under OPCODE_MASK; one arm, Operation::Mov,
\* and unimplemented!() for every other value
decode_operation(s, p) ==
    LET first == iter_next(s, p) IN
    IF ~first.some
    THEN [pos |-> first.pos, out |-> None, operation |-> "none", first_byte |-> -1]
    ELSE IF BitAnd(first.item, OPCODE_MASK) = 136
    THEN [pos |-> first.pos, out |-> Some(""), operation |-> "Mov", first_byte |-> first.item]
    ELSE [pos |-> first.pos, out |-> Panic("not implemented"),
          operation |-> "unimplemented", first_byte |-> first.item]

\* MovOperation::new: every field is a table entry picked by bits of the two
\* bytes; register_or_memory comes from the register table whatever the mode
MovOperation_new(first_byte, second_byte) ==
    LET size == lookup_masked(SIZES, first_byte, 1, 0) IN
    [direction |-> lookup_masked(DIRECTIONS, first_byte, 2, 1),
     mode |-> lookup_masked(MODES, second_byte, 192, 6),
     register |-> lookup_masked(register_table(size), second_byte, 56, 3),
     register_or_memory |-> lookup_masked(register_table(size), second_byte, 7, 0)]

\* Display for MovOperation
MovOperation_fmt(mov) ==
    IF mov.direction = "FromRegister"
    THEN FormatMov(mov.register_or_memory, mov.register)
    ELSE FormatMov(mov.register, mov.register_or_memory)

decode_mov(first_byte, s, p) ==
    LET second == iter_next(s, p) IN
    IF ~second.some THEN [pos |-> second.pos, out |-> None]
    ELSE [pos |-> second.pos,
          out |-> Some(MovOperation_fmt(MovOperation_new(first_byte, second.item)))]

dissassemble_instruction(s, p) ==
    LET op == decode_operation(s, p) IN
    IF op.out.tag # "Some" THEN op
    ELSE
    LET decoded == decode_mov(op.first_byte, s, op.pos) IN
    [pos |-> decoded.pos, out |-> decoded.out,
     operation |-> op.operation, first_byte |-> op.first_byte]

\* disassemble as a function of its input: the loop run from cursor p with
\* the text accumulated so far, to its return or its panic
RECURSIVE disassemble_loop(_, _, _)
disassemble_loop(s, p, text) ==
    LET r == dissassemble_instruction(s, p) IN
    CASE r.out.tag = "Some" -> disassemble_loop(s, r.pos, text \o r.out.val \o "\n")
      [] r.out.tag = "None" -> Some(text)
      [] r.out.tag = "Panic" -> r.out

disassemble(s) == disassemble_loop(s, 0, HEADER \o "\n\n")

---------------------------------------------------------------------------
(* The binary: main reads the file, disassemble loops over it, main prints *)

\* opcodes, addressing bytes, displacement and immediate bytes met in the listings
MainBytes == {137, 222, 138, 0, 96, 4, 177, 12}

MainInputs == UNION {[1..n -> MainBytes] : n \in 0..MaxCode}

NoInstruction == [fn |-> "none", start |-> 0, out |-> None, operation |-> "none", first_byte |-> -1]

\* main.rs:14-15: the header is written and the iterator made
Init ==
    /\ machine_code \in MainInputs
    /\ overflow_checks \in BOOLEAN
    /\ cursor = 0
    /\ dissassembly = HEADER \o "\n\n"
    /\ status = "running"
    /\ stdout = ""
    /\ call = NoInstruction

\* one turn of the while-let loop of disassemble: a line is appended, or the
\* loop ends and disassemble returns, or the dispatcher panics
LoopIteration ==
    /\ status = "running"
    /\ LET r == dissassemble_instruction(machine_code, cursor) IN
       /\ cursor' = r.pos
       /\ call' = [fn |-> "dissassemble_instruction", start |-> cursor, out |-> r.out,
                   operation |-> r.operation, first_byte |-> r.first_byte]
       /\ dissassembly' = IF r.out.tag = "Some"
                          THEN dissassembly \o r.out.val \o "\n"
                          ELSE dissassembly
       /\ status' = CASE r.out.tag = "Some" -> "running"
                      [] r.out.tag = "None" -> "returned"
                      [] r.out.tag = "Panic" -> "panicked"
    /\ UNCHANGED <<machine_code, stdout, overflow_checks>>

\* main.rs:9: the returned text is printed
MainPrint ==
    /\ status = "returned"
    /\ stdout' = dissassembly
    /\ status' = "printed"
    /\ UNCHANGED <<machine_code, cursor, dissassembly, call, overflow_checks>>

Next ==
    \/ LoopIteration
    \/ MainPrint

Spec == Init /\ [][Next]_vars

\* the loop of disassemble, run step by step, ends with what the function returns
TypeOK ==
    /\ status \in {"running", "returned", "printed", "panicked"}
    /\ cursor \in 0..Len(machine_code)
    /\ status \in {"returned", "printed"} => Some(dissassembly) = disassemble(machine_code)
    /\ status = "panicked" => disassemble(machine_code).tag = "Panic"

---------------------------------------------------------------------------
(* The variant decoders called on an iterator, as the tests of mov.rs call  *)
(* them: an array of bytes, one iterator over it, one call of one decoder. *)

\* leading bytes 100010dw: every direction and size
RegisterOpcodes == {136, 137, 138, 139}

\* leading bytes 1100011w: both sizes
ImmediateMemoryOpcodes == {198, 199}

\* leading bytes 1011wreg: a byte and a word register
ImmediateRegisterOpcodes == {177, 186}

\* leading bytes 101000dw: every direction and size bit
AccumulatorOpcodes == {160, 161, 162, 163}

\* the reg fields tried in the second byte
RegSelectors == {1, 6}

\* every mode and every r/m selector
ModRMBytes == {mode * 64 + reg * 8 + r_m : mode \in 0..3, reg \in RegSelectors, r_m \in 0..7}

\* displacement, address and immediate bytes: zero, a small positive value, the sign bit
TailBytes == {0, 5, 128}

Tails == UNION {[1..n -> TailBytes] : n \in 0..MaxTail}

MovInputs ==
    {<<op>> : op \in RegisterOpcodes \cup ImmediateMemoryOpcodes}
    \cup {<<op, second>> \o tail :
            op \in RegisterOpcodes \cup ImmediateMemoryOpcodes,
            second \in ModRMBytes, tail \in Tails}
    \cup {<<op>> \o tail :
            op \in ImmediateRegisterOpcodes \cup AccumulatorOpcodes, tail \in Tails}

NoCall == [fn |-> "none", start |-> 0, out |-> None]

InitMov ==
    /\ machine_code \in MovInputs
    /\ overflow_checks \in BOOLEAN
    /\ cursor = 0
    /\ dissassembly = ""
    /\ status = "running"
    /\ stdout = ""
    /\ call = NoCall

\* what a call leaves behind: the iterator advanced by what the decoder read,
\* the outcome recorded; a panic unwinds out of the caller
Returned(fn, r) ==
    /\ cursor' = r.pos
    /\ call' = [fn |-> fn, start |-> cursor, out |-> r.out]
    /\ status' = IF r.out.tag = "Panic" THEN "panicked" ELSE "running"
    /\ UNCHANGED <<machine_code, dissassembly, stdout, overflow_checks>>

CallRegisterToFromRegister ==
    /\ status = "running"
    /\ call = NoCall
    /\ Returned("disassemble_register_to_from_register",
                disassemble_register_to_from_register(machine_code, cursor))

CallImmediateToRegisterMemory ==
    /\ status = "running"
    /\ call = NoCall
    /\ Returned("disassemble_immediate_to_register_memory",
                disassemble_immediate_to_register_memory(machine_code, cursor))

CallImmediateToRegister ==
    /\ status = "running"
    /\ call = NoCall
    /\ Returned("disassemble_immediate_to_register",
                disassemble_immediate_to_register(machine_code, cursor))

CallMemoryToFromAccumulator ==
    /\ status = "running"
    /\ call = NoCall
    /\ Returned("disassemble_memory_to_from_accumulator",
                disassemble_memory_to_from_accumulator(machine_code, cursor))

NextMov ==
    \/ CallRegisterToFromRegister
    \/ CallImmediateToRegisterMemory
    \/ CallImmediateToRegister
    \/ CallMemoryToFromAccumulator

SpecMov == InitMov /\ [][NextMov]_vars

---------------------------------------------------------------------------
(* The encodings, as the 8086 manual and the claims state them: fields by  *)
(* division and remainder, independent of the masks used by the code.        *)

IsRegisterToFromRegister(b) == b \div 4 = 34        \* 100010dw

IsImmediateToRegister(b) == b \div 16 = 11          \* 1011wreg

IsImmediateToRegisterMemory(b) == b \div 2 = 99     \* 1100011w

IsMemoryToFromAccumulator(b) == b \div 4 = 40       \* 101000dw

ModField(b) == b \div 64

RegField(b) == (b \div 8) % 8

RmField(b) == b % 8

\* displacement bytes that follow an addressing byte
DisplacementBytes(second) ==
    CASE ModField(second) = 0 -> IF RmField(second) = 6 THEN 2 ELSE 0
      [] ModField(second) = 1 -> 1
      [] ModField(second) = 2 -> 2
      [] ModField(second) = 3 -> 0

\* the byte of the input at offset k of the last call (0 when the input ends before it)
CallByte(k) ==
    IF call.start + k + 1 <= Len(machine_code) THEN machine_code[call.start + k + 1] ELSE 0

CallFirst == CallByte(0)

CallSecond == CallByte(1)

\* the last call was given at least n bytes
CallHas(n) == call.start + n <= Len(machine_code)

\* the last call decoded a valid encoding of its own variant and succeeded
DecodedRegisterToFromRegister ==
    /\ call.fn = "disassemble_register_to_from_register"
    /\ call.out.tag = "Some"
    /\ IsRegisterToFromRegister(CallFirst)

DecodedImmediateToRegisterMemory ==
    /\ call.fn = "disassemble_immediate_to_register_memory"
    /\ call.out.tag = "Some"
    /\ IsImmediateToRegisterMemory(CallFirst)

DecodedImmediateToRegister ==
    /\ call.fn = "disassemble_immediate_to_register"
    /\ call.out.tag = "Some"
    /\ IsImmediateToRegister(CallFirst)

DecodedMemoryToFromAccumulator ==
    /\ call.fn = "disassemble_memory_to_from_accumulator"
    /\ call.out.tag = "Some"
    /\ IsMemoryToFromAccumulator(CallFirst)

\* C1: a successful call of a variant's decoder on a valid encoding of that
\* variant advances the cursor by exactly the length of the encoding: 2 bytes
\* (1 for the immediate-to-register and accumulator forms), the displacement
\* bytes of the mode (2 for the direct address, and the 2 address bytes of the
\* accumulator form), and 1 or 2 immediate bytes where there is an immediate.
C1_ExactByteCount ==
    /\ DecodedRegisterToFromRegister
         => cursor - call.start = 2 + DisplacementBytes(CallSecond)
    /\ DecodedImmediateToRegisterMemory
         => cursor - call.start = 2 + DisplacementBytes(CallSecond) + 1 + (CallFirst % 2)
    /\ DecodedImmediateToRegister
         => cursor - call.start = 1 + 1 + ((CallFirst \div 8) % 2)
    /\ DecodedMemoryToFromAccumulator
         => cursor - call.start = 1 + 2

\* C1 witness: a word immediate stored through an 8-bit displacement is
\* decoded from an input that holds one more byte, which is left unread
C1_Witness ==
    /\ DecodedImmediateToRegisterMemory
    /\ ModField(CallSecond) = 1
    /\ CallFirst % 2 = 1
    /\ cursor = 5
    /\ Len(machine_code) = 6

---------------------------------------------------------------------------
(* The stream driver and the dispatcher of main.rs against the claims *)

\* the variant whose fixed prefix a leading byte carries
VariantOf(b) ==
    CASE IsRegisterToFromRegister(b) -> "RegisterToFromRegister"
      [] IsImmediateToRegisterMemory(b) -> "ImmediateToRegisterMemory"
      [] IsMemoryToFromAccumulator(b) -> "MemoryToFromAccumulator"
      [] IsImmediateToRegister(b) -> "ImmediateToRegister"
      [] OTHER -> "none"

\* how many of the four prefixes a byte carries
PrefixesMatched(b) ==
    Cardinality({v \in 1..4 :
        \/ v = 1 /\ IsRegisterToFromRegister(b)
        \/ v = 2 /\ IsImmediateToRegisterMemory(b)
        \/ v = 3 /\ IsMemoryToFromAccumulator(b)
        \/ v = 4 /\ IsImmediateToRegister(b)})

\* the variant decoder of mov.rs for the encoding that starts at s[p + 1]
DecodeVariant(s, p) ==
    LET v == VariantOf(s[p + 1]) IN
    CASE v = "RegisterToFromRegister" -> disassemble_register_to_from_register(s, p)
      [] v = "ImmediateToRegisterMemory" -> disassemble_immediate_to_register_memory(s, p)
      [] v = "MemoryToFromAccumulator" -> disassemble_memory_to_from_accumulator(s, p)
      [] v = "ImmediateToRegister" -> disassemble_immediate_to_register(s, p)
      [] OTHER -> [pos |-> p, out |-> None]

\* s from p on as a concatenation of valid MOV encodings: whether it is one,
\* how many instructions it holds, and the text of their lines after `text`
RECURSIVE Listing(_, _, _, _)
Listing(s, p, n, text) ==
    IF p = Len(s) THEN [valid |-> TRUE, count |-> n, text |-> text]
    ELSE LET r == DecodeVariant(s, p) IN
         IF r.out.tag = "Some"
         THEN Listing(s, r.pos, n + 1, text \o r.out.val \o "\n")
         ELSE [valid |-> FALSE, count |-> n, text |-> text]

ExpectedListing == Listing(machine_code, 0, 0, "bits 16" \o "\n" \o "\n")

Ended == status \in {"returned", "printed", "panicked"}

\* C2 (as claimed): for an input that is a concatenation of n valid MOV
\* encodings, disassemble returns the header line, a blank line and the n
\* instruction lines, each the decoding of its instruction.
C2_Original ==
    (Ended /\ ExpectedListing.valid)
        => (status # "panicked" /\ dissassembly = ExpectedListing.text)

\* the variant an Operation of the dispatcher is decoded as
RoutedTo(operation) ==
    IF operation = "Mov" THEN "RegisterToFromRegister" ELSE "none"

Dispatched == call.fn = "dissassemble_instruction" /\ call.first_byte >= 0

\* C3 (as claimed): the dispatcher routes every leading byte that carries the
\* prefix of one of the four variants to that variant's decoder, and no byte
\* value carries the prefix of two variants.
C3_Original ==
    /\ (Dispatched /\ VariantOf(call.first_byte) # "none")
          => RoutedTo(call.operation) = VariantOf(call.first_byte)
    /\ \A b \in 0..255 : PrefixesMatched(b) <= 1

\* C4 (as claimed): a leading byte that matches no variant makes the
\* dispatcher fail with an UnsupportedOpcode error value, and the run is not
\* terminated: the caller keeps the instructions decoded before that byte.
C4_Original ==
    (Dispatched /\ VariantOf(call.first_byte) = "none")
        => (call.out.tag = "UnsupportedOpcode" /\ status # "panicked")

\* the stream ended inside the instruction of the last call: a byte of it was
\* read and the decoder ran out of bytes
Truncated == call.out.tag = "None" /\ call.start < Len(machine_code)

\* C5 (as claimed): when the stream ends in the middle of an instruction the
\* driver returns a result that is flagged incomplete, so that it differs from
\* the result for the same input without the truncated trailing bytes.
C5_Original ==
    (status \in {"returned", "printed"} /\ Truncated)
        => Some(dissassembly) # disassemble(SubSeq(machine_code, 1, call.start))

---------------------------------------------------------------------------
(* The operands of the variant decoders against the claims *)

\* the register a 3-bit selector names, by width bit
RegisterName(w, selector) ==
    IF w = 0 THEN BYTE_REGISTERS[selector + 1] ELSE WORD_REGISTERS[selector + 1]

\* the base expression of each r/m selector, without its brackets
BaseExpression ==
    <<"bx + si", "bx + di", "bp + si", "bp + di", "si", "di", "bp", "bx">>

\* direction and width bits of a 100010dw / 1100011w leading byte
DBit(b) == (b \div 2) % 2

WBit(b) == b % 2

SizeOf(w) == IF w = 0 THEN "Byte" ELSE "Word"

\* the displacement of the last call's encoding: the third byte sign-extended
\* (mod = 01), the third and fourth bytes little-endian and signed (mod = 10)
DisplacementValue ==
    IF ModField(CallSecond) = 1
    THEN (IF CallByte(2) >= 128 THEN CallByte(2) - 256 ELSE CallByte(2))
    ELSE LET u == CallByte(2) + 256 * CallByte(3) IN
         IF u >= 32768 THEN u - 65536 ELSE u

DisplacementMode == ModField(CallSecond) \in {1, 2}

\* the immediate that follows k bytes of opcode, addressing and displacement
ImmediateAt(k, w) ==
    IF w = 0 THEN CallByte(k) ELSE CallByte(k) + 256 * CallByte(k + 1)

\* C6: in the 8-bit and 16-bit displacement modes a displacement of zero is
\* rendered as absent, the operand being the bare base expression of the r/m
\* selector ("[bp]" for selector 6), and the displacement bytes are consumed.
C6_ZeroDisplacementAbsent ==
    LET base == "[" \o BaseExpression[RmField(CallSecond) + 1] \o "]"
        reg == RegisterName(WBit(CallFirst), RegField(CallSecond))
        k == 2 + ModField(CallSecond)
    IN
    /\ (DecodedRegisterToFromRegister /\ DisplacementMode /\ DisplacementValue = 0)
         => /\ call.out.val = IF DBit(CallFirst) = 0
                              THEN "mov " \o base \o ", " \o reg
                              ELSE "mov " \o reg \o ", " \o base
            /\ cursor - call.start = k
    /\ (DecodedImmediateToRegisterMemory /\ DisplacementMode /\ DisplacementValue = 0)
         => /\ call.out.val =
                 "mov " \o base \o ", " \o (IF WBit(CallFirst) = 0 THEN "byte " ELSE "word ")
                        \o ToString(ImmediateAt(k, WBit(CallFirst)))
            /\ cursor - call.start = k + 1 + WBit(CallFirst)

\* C6 witness: 16-bit displacement mode, selector 6, both displacement bytes
\* zero and read
C6_Witness ==
    /\ DecodedRegisterToFromRegister
    /\ ModField(CallSecond) = 2
    /\ RmField(CallSecond) = 6
    /\ DisplacementValue = 0
    /\ cursor - call.start = 4

\* C7 (as claimed): every nonzero displacement d, sign-extended from 8 bits or
\* read as a signed 16-bit value, is rendered after the base expression as
\* " + d" when d > 0 and as " - |d|" when d < 0, |d| being a positive decimal
\* number for every d, the most negative value included.
C7_Original ==
    LET base == "[" \o BaseExpression[RmField(CallSecond) + 1]
        reg == RegisterName(WBit(CallFirst), RegField(CallSecond))
        d == DisplacementValue
        operand == IF d > 0 THEN base \o " + " \o ToString(d) \o "]"
                   ELSE base \o " - " \o ToString(0 - d) \o "]"
    IN
    (/\ call.fn = "disassemble_register_to_from_register"
     /\ IsRegisterToFromRegister(CallFirst)
     /\ DisplacementMode
     /\ CallHas(2 + ModField(CallSecond))
     /\ d # 0)
        => /\ call.out.tag = "Some"
           /\ call.out.val = IF DBit(CallFirst) = 0
                             THEN "mov " \o operand \o ", " \o reg
                             ELSE "mov " \o reg \o ", " \o operand

\* C8: the register operand of the register/memory-to/from-register variant
\* is the byte or word register (bit 0 of byte 1) named by bits 5..3 of byte 2,
\* and the line is "mov <rm>, <reg>" when bit 1 of byte 1 is 0 and
\* "mov <reg>, <rm>" when it is 1, in every mode and for every r/m selector.
C8_OperandOrder ==
    DecodedRegisterToFromRegister =>
        LET reg == RegisterName(WBit(CallFirst), RegField(CallSecond))
            rm == register_or_memory(SizeOf(WBit(CallFirst)), CallSecond,
                                     machine_code, call.start + 2).out.val
        IN call.out.val = IF DBit(CallFirst) = 0
                          THEN "mov " \o rm \o ", " \o reg
                          ELSE "mov " \o reg \o ", " \o rm

\* C8 witness: a word load (d = 1, w = 1) from memory with an 8-bit displacement
C8_Witness ==
    /\ DecodedRegisterToFromRegister
    /\ CallFirst = 139
    /\ ModField(CallSecond) = 1
    /\ RegField(CallSecond) = 6
    /\ call.out.val = "mov si, [bx + 5]"

\* C9: in the immediate-to-register variant bit 3 of byte 1 selects the
\* width: one immediate byte and the byte table when 0, two little-endian
\* immediate bytes and the word table when 1; the destination is the table
\* entry at bits 2..0 and the immediate is its unsigned decimal value.
C9_ImmediateToRegister ==
    DecodedImmediateToRegister =>
        LET w == (CallFirst \div 8) % 2 IN
        /\ call.out.val = "mov " \o RegisterName(w, CallFirst % 8) \o ", "
                                 \o ToString(ImmediateAt(1, w))
        /\ cursor - call.start = 2 + w

\* C9 witness: a word immediate with its top bit set, rendered unsigned
C9_Witness ==
    /\ DecodedImmediateToRegister
    /\ (CallFirst \div 8) % 2 = 1
    /\ CallByte(2) = 128
    /\ call.out.val = "mov dx, 32773"

\* C10 (as claimed): the immediate-to-register/memory variant writes the
\* "byte"/"word" qualifier before the immediate exactly when the destination
\* is memory (mod 00, 01, 10); for a register destination (mod = 11) the line
\* is "mov <reg>, <imm>".  The immediate follows the displacement bytes and
\* the reg field of byte 2 has no effect.
C10_Original ==
    DecodedImmediateToRegisterMemory =>
        LET w == WBit(CallFirst)
            k == 2 + DisplacementBytes(CallSecond)
            dest == register_or_memory(SizeOf(w), CallSecond,
                                       machine_code, call.start + 2).out.val
            imm == ToString(ImmediateAt(k, w))
        IN call.out.val = IF ModField(CallSecond) = 3
                          THEN "mov " \o dest \o ", " \o imm
                          ELSE "mov " \o dest \o ", "
                                      \o (IF w = 0 THEN "byte " ELSE "word ") \o imm

\* C11: the memory-to/from-accumulator decoder consumes exactly three bytes,
\* reads bytes 2 and 3 little-endian as an unsigned 16-bit address A and
\* returns "mov ax, [A]" when bit 1 of byte 1 is 0 and "mov [A], ax" when it
\* is 1; the other operand is always the word accumulator ax.
C11_MemoryToFromAccumulator ==
    DecodedMemoryToFromAccumulator =>
        LET address == "[" \o ToString(CallByte(1) + 256 * CallByte(2)) \o "]" IN
        /\ cursor - call.start = 3
        /\ call.out.val = IF DBit(CallFirst) = 0
                          THEN "mov ax, " \o address
                          ELSE "mov " \o address \o ", ax"

\* C11 witness: a store from the accumulator (bit 1 set) to an address whose
\* two bytes differ, decoded from an input that holds a fourth byte
C11_Witness ==
    /\ DecodedMemoryToFromAccumulator
    /\ CallFirst = 163
    /\ call.out.val = "mov [32773], ax"
    /\ cursor = 3
    /\ Len(machine_code) = 4

\* the operand of a no-displacement encoding: for selector 6 the two bytes
\* after the addressing byte, little-endian and unsigned, in brackets; for
\* every other selector its base expression
NoDisplacementOperand ==
    IF RmField(CallSecond) = 6
    THEN "[" \o ToString(CallByte(2) + 256 * CallByte(3)) \o "]"
    ELSE "[" \o BaseExpression[RmField(CallSecond) + 1] \o "]"

\* C12: in no-displacement mode (mod = 00) the resolver treats r/m selector 6
\* as a direct address: it consumes exactly two further bytes and renders
\* their little-endian unsigned value V as "[V]", with no sign and no register
\* name; for every other selector it consumes no further byte and renders the
\* base expression of the selector.
C12_NoDisplacementMode ==
    LET k == IF RmField(CallSecond) = 6 THEN 4 ELSE 2
        reg == RegisterName(WBit(CallFirst), RegField(CallSecond))
    IN
    /\ (DecodedRegisterToFromRegister /\ ModField(CallSecond) = 0)
         => /\ cursor - call.start = k
            /\ call.out.val = IF DBit(CallFirst) = 0
                              THEN "mov " \o NoDisplacementOperand \o ", " \o reg
                              ELSE "mov " \o reg \o ", " \o NoDisplacementOperand
    /\ (DecodedImmediateToRegisterMemory /\ ModField(CallSecond) = 0)
         => /\ cursor - call.start = k + 1 + WBit(CallFirst)
            /\ call.out.val =
                 "mov " \o NoDisplacementOperand \o ", "
                        \o (IF WBit(CallFirst) = 0 THEN "byte " ELSE "word ")
                        \o ToString(ImmediateAt(k, WBit(CallFirst)))

\* C12 witness: a load from a direct address with its top bit set, the two
\* address bytes read and a further byte of the input left unread
C12_Witness ==
    /\ DecodedRegisterToFromRegister
    /\ ModField(CallSecond) = 0
    /\ RmField(CallSecond) = 6
    /\ call.out.val = "mov si, [32773]"
    /\ cursor = 4
    /\ Len(machine_code) = 5

====
